---------------------------- MODULE Spec2Model ----------------------------
(***************************************************************************)
(* A model of tinygrad's OpenCL backend, src/tinygrad/ops_gpu.py: the      *)
(* host-side shape algebra, the index arithmetic of the kernels, and the   *)
(* memoised kernel builder.  Buffers are records [shape, data] with data   *)
(* the flat row-major contents; kernel work items are evaluated per global *)
(* id exactly as the OpenCL source computes them (0-based ids, 1-based     *)
(* TLA+ sequences).                                                        *)
(***************************************************************************)
EXTENDS Integers, Sequences, FiniteSets, TLC

VARIABLES
  \* elementwise / reduction operations
  op, x, y, axis, in_sh, ret, grad_x, grad_y, nbuf, nkern, idx_a, idx_b,
  \* the memoised kernel builder clbuild and the threads calling it
  cache, compiles, got, nprog, tpc, tkey, tprog,
  \* Pad2D
  pad_op, pad_x, padding, pad_ret, pad_gout, pad_grad, pad_oob,
  \* MaxPool2D
  pool_op, pool_in, kernel_size, idxs, pool_out, pool_gout, pool_grad,
  \* Reshape
  rs_op, rs_x, rs_shape, rs_ret,
  \* Dot
  dot_op, dot_input, dot_weight, dot_ret, dot_grad_output, dot_grad_input,
  dot_grad_weight, dot_oob, dot_once,
  \* Conv2D.backward and the work items of its convx kernel
  conv_op, conv_ctx, conv_args, conv_x, conv_w, conv_gout, conv_dx, conv_dw,
  wi_iter, wi_ph, wi_tmp

tensorVars == <<op, x, y, axis, in_sh, ret, grad_x, grad_y, nbuf, nkern, idx_a, idx_b>>
cacheVars == <<cache, compiles, got, nprog, tpc, tkey, tprog>>

padVars == <<pad_op, pad_x, padding, pad_ret, pad_gout, pad_grad, pad_oob>>

poolVars == <<pool_op, pool_in, kernel_size, idxs, pool_out, pool_gout, pool_grad>>

reshapeVars == <<rs_op, rs_x, rs_shape, rs_ret>>
dotVars == <<dot_op, dot_input, dot_weight, dot_ret, dot_grad_output, dot_grad_input,
             dot_grad_weight, dot_oob, dot_once>>

convVars == <<conv_op, conv_ctx, conv_args, conv_x, conv_w, conv_gout, conv_dx, conv_dw,
              wi_iter, wi_ph, wi_tmp>>

vars == <<tensorVars, cacheVars, padVars, poolVars, reshapeVars, dotVars, convVars>>

\* what the operations of one part leave alone
notTensor == <<cacheVars, padVars, poolVars, reshapeVars, dotVars, convVars>>
notCache == <<tensorVars, padVars, poolVars, reshapeVars, dotVars, convVars>>
notPad == <<tensorVars, cacheVars, poolVars, reshapeVars, dotVars, convVars>>
notPool == <<tensorVars, cacheVars, padVars, reshapeVars, dotVars, convVars>>
notReshape == <<tensorVars, cacheVars, padVars, poolVars, dotVars, convVars>>
notDot == <<tensorVars, cacheVars, padVars, poolVars, reshapeVars, convVars>>
notConv == <<tensorVars, cacheVars, padVars, poolVars, reshapeVars, dotVars>>

-----------------------------------------------------------------------------
(* Bounds of the model *)

MaxRank == 2
MaxDim == 3
\* keys requested beyond the capacity of the kernel cache
MoreKeys == 1
NThreads == 2
\* distinct keys the concurrent callers ask for
ThreadKeys == 2
\* Pad2D: batch*channel images, image sides and padding per side
MaxImages == 2
MaxSide == 2
MaxPad == 1
\* MaxPool2D: images, image sides, cells of one image
MaxPoolImages == 2
MaxPoolSide == 3
MaxPoolCells == 9
\* Reshape: length of the requested shape
MaxReshapeRank == 3
\* Dot: isize, msize, osize
MaxMat == 3
\* Conv2D.backward: work items of convx, image sides, += of one launch
MaxConvItems == 2
MaxConvSide == 3
MaxConvSteps == 8

-----------------------------------------------------------------------------
(* Helpers standing for numpy / Python built-ins used by the source *)

Max(a, b) == IF a >= b THEN a ELSE b

RECURSIVE Prod(_)
Prod(s) == IF Len(s) = 0 THEN 1 ELSE Head(s) * Prod(Tail(s))

RECURSIVE SumSeq(_)
SumSeq(s) == IF Len(s) = 0 THEN 0 ELSE Head(s) + SumSeq(Tail(s))

Ones(n) == [i \in 1..n |-> 1]

\* keep the elements of s at the positions where mask is TRUE
RECURSIVE SelectIdx(_,_)
SelectIdx(s, mask) ==
  IF Len(s) = 0 THEN <<>>
  ELSE (IF Head(mask) THEN <<Head(s)>> ELSE <<>>) \o SelectIdx(Tail(s), Tail(mask))

Shapes == UNION {[1..r -> 1..MaxDim] : r \in 1..MaxRank}

Fills == {"ones", "iota"}

Fill(n, f) == [k \in 1..n |-> IF f = "ones" THEN 1 ELSE k]

Buffer(shape, f) == [shape |-> shape, data |-> Fill(Prod(shape), f)]

NoBuffer == [ok |-> FALSE, shape |-> <<>>, data |-> <<>>]

NoAxis == [none |-> TRUE, ax |-> <<>>]

-----------------------------------------------------------------------------
(* binary_op *)

Codes == {"a+b", "a-b", "a*b"}

Code(code, a, b) ==
  CASE code = "a+b" -> a + b
    [] code = "a-b" -> a - b
    [] code = "a*b" -> a * b

\* shape_x = np.ones(n_dims); shape_x[:len(x.shape)] = x.shape
PadShape(shape, n_dims) == [i \in 1..n_dims |-> IF i <= Len(shape) THEN shape[i] ELSE 1]

Broadcastable(shape_x, shape_y) ==
  \A i \in 1..Len(shape_x) :
     shape_x[i] = 1 \/ shape_y[i] = 1 \/ shape_x[i] = shape_y[i]

\* the loop with idx_ret taken before prod is divided by the current dimension
RECURSIVE BinopLoopLateProd(_,_,_,_,_,_)
BinopLoopLateProd(dim, prod, idx, gid, shape_op, shape_ret) ==
  IF dim > Len(shape_ret) THEN idx
  ELSE LET p == prod \div shape_ret[dim]
           idx_ret == (gid \div prod) % shape_ret[dim]
       IN BinopLoopLateProd(dim + 1, p, (idx * shape_op[dim]) + (idx_ret % shape_op[dim]),
                            gid, shape_op, shape_ret)

\* the loop of the binop kernel for one operand; dim is 1-based here
RECURSIVE BinopLoop(_,_,_,_,_,_)
BinopLoop(dim, prod, idx, gid, shape_op, shape_ret) ==
  IF dim > Len(shape_ret) THEN idx
  ELSE LET p == prod \div shape_ret[dim]
           idx_ret == (gid \div p) % shape_ret[dim]
       IN BinopLoop(dim + 1, p, (idx * shape_op[dim]) + (idx_ret % shape_op[dim]),
                    gid, shape_op, shape_ret)

BinopIdx(gid, shape_op, shape_ret) ==
  BinopLoop(1, Prod(shape_ret), 0, gid, shape_op, shape_ret)

\* the operand indices of work item gid: the generated source takes the
\* shortcut when the two original shapes are equal
BinopIdxA(gid, xs, ys, shape_x, shape_ret) ==
  IF xs = ys THEN gid ELSE BinopIdx(gid, shape_x, shape_ret)

BinopIdxB(gid, xs, ys, shape_y, shape_ret) ==
  IF xs = ys THEN gid ELSE BinopIdx(gid, shape_y, shape_ret)

\* the whole of binary_op: the result, with the number of buffers allocated
\* and kernels dispatched on the path taken, and idx_a, idx_b of every work
\* item gid of the binop kernel
binary_op(code, bx, by) ==
  LET n_dims == Max(Len(bx.shape), Len(by.shape))
      shape_x == PadShape(bx.shape, n_dims)
      shape_y == PadShape(by.shape, n_dims)
      shape_ret == [i \in 1..n_dims |-> Max(shape_x[i], shape_y[i])]
      prod == Prod(shape_ret)
      ia == [g \in 1..prod |-> BinopIdxA(g - 1, bx.shape, by.shape, shape_x, shape_ret)]
      ib == [g \in 1..prod |-> BinopIdxB(g - 1, bx.shape, by.shape, shape_y, shape_ret)]
  IN IF ~Broadcastable(shape_x, shape_y)
     THEN [ok |-> FALSE, shape |-> <<>>, data |-> <<>>, nbuf |-> 0, nkern |-> 0,
           idx_a |-> <<>>, idx_b |-> <<>>]
     ELSE [ok |-> TRUE, shape |-> shape_ret,
           data |-> [g \in 1..prod |->
                       Code(code, bx.data[ia[g] + 1], by.data[ib[g] + 1])],
           nbuf |-> 1, nkern |-> 1, idx_a |-> ia, idx_b |-> ib]

-----------------------------------------------------------------------------
(* reduce_op, unbroadcast, Sum.forward *)

\* osize[list(axis)] = 1 raises IndexError unless -rank <= a < rank
AxisIndexable(a, rank) == -rank <= a /\ a < rank

NormAxis(a, rank) == IF a < 0 THEN a + rank ELSE a

ReduceOsize(shape, ax) ==
  IF ax.none THEN Ones(Len(shape))
  ELSE [i \in 1..Len(shape) |->
          IF \E j \in 1..Len(ax.ax) : NormAxis(ax.ax[j], Len(shape)) = i - 1
          THEN 1 ELSE shape[i]]

\* the inner loop of the reduce kernel: the index into a_g for (gid, x)
RECURSIVE ReduceLoop(_,_,_,_,_,_,_,_)
ReduceLoop(dim, idx, tprod, tsz, gid, xx, shape_x, shape_ret) ==
  IF dim > Len(shape_x) THEN idx
  ELSE IF shape_x[dim] = shape_ret[dim]
       THEN LET tp == tprod \div shape_x[dim]
            IN ReduceLoop(dim + 1, idx * shape_x[dim] + ((gid \div tp) % shape_x[dim]),
                          tp, tsz, gid, xx, shape_x, shape_ret)
       ELSE LET ts == tsz \div shape_x[dim]
            IN ReduceLoop(dim + 1, idx * shape_x[dim] + ((xx \div ts) % shape_x[dim]),
                          tprod, ts, gid, xx, shape_x, shape_ret)

ReduceIdx(gid, xx, sz, prod, shape_x, shape_ret) ==
  ReduceLoop(1, 0, prod, sz, gid, xx, shape_x, shape_ret)

\* reduce_op with code "out += a", code2 "out"
reduce_op(inp, ax) ==
  IF ~ax.none /\ \E j \in 1..Len(ax.ax) : ~AxisIndexable(ax.ax[j], Len(inp.shape))
  THEN [ok |-> FALSE, shape |-> <<>>, data |-> <<>>, nbuf |-> 0, nkern |-> 0]
  ELSE LET osize == ReduceOsize(inp.shape, ax)
           prod == Prod(osize)
           sz == Prod(inp.shape) \div prod
       IN [ok |-> TRUE,
           shape |-> IF ax.none THEN <<1>> ELSE osize,
           data |-> [g \in 1..prod |->
                       SumSeq([xx \in 1..sz |->
                                 inp.data[ReduceIdx(g - 1, xx - 1, sz, prod, inp.shape, osize) + 1]])],
           nbuf |-> 1, nkern |-> 1]

SumAxis(out_shape, sh) ==
  IF sh = <<1>> THEN NoAxis
  ELSE [none |-> FALSE,
        ax |-> SelectIdx([i \in 1..Len(sh) |-> i - 1],
                         [i \in 1..Len(sh) |-> sh[i] = 1 /\ out_shape[i] > 1])]

unbroadcast(out, sh) == reduce_op(out, SumAxis(out.shape, sh))

\* Sum.forward: reduce_op, then the shape is overwritten when axis is given
SumForward(input, ax) ==
  LET r == reduce_op(input, ax)
  IN IF ~r.ok \/ ax.none THEN r
     ELSE [r EXCEPT !.shape =
             SelectIdx(input.shape,
                       [i \in 1..Len(input.shape) |->
                          ~\E j \in 1..Len(ax.ax) : ax.ax[j] = i - 1])]

-----------------------------------------------------------------------------
(* The operations as actions *)

AxisValues == (0 - MaxRank - 1)..MaxRank

AxisLists == {NoAxis} \cup
  {[none |-> FALSE, ax |-> a] : a \in UNION {[1..n -> AxisValues] : n \in 0..2}}

InitTensor ==
  /\ op = "start"
  /\ \E s \in Shapes, f \in Fills : x = Buffer(s, f)
  /\ y = Buffer(<<1>>, "ones")
  /\ axis = NoAxis
  /\ in_sh = <<>>
  /\ ret = NoBuffer
  /\ grad_x = NoBuffer
  /\ grad_y = NoBuffer
  /\ nbuf = 0
  /\ nkern = 0
  /\ idx_a = <<>>
  /\ idx_b = <<>>

Result(r) == [ok |-> r.ok, shape |-> r.shape, data |-> r.data]

\* Add/Sub/Mul.forward: binary_op(ctx, code, x, y)
BinaryOp ==
  /\ op = "start"
  /\ \E s \in Shapes, code \in Codes :
       LET by == Buffer(s, "iota")
           r == binary_op(code, x, by)
       IN /\ y' = by
          /\ ret' = Result(r)
          /\ nbuf' = nbuf + r.nbuf
          /\ nkern' = nkern + r.nkern
          /\ idx_a' = r.idx_a
          /\ idx_b' = r.idx_b
  /\ op' = "binary_op"
  /\ UNCHANGED <<x, axis, in_sh, grad_x, grad_y>>
  /\ UNCHANGED notTensor

\* Add.backward on a grad_output of the forward's shape
AddBackward ==
  /\ op = "binary_op"
  /\ ret.ok
  /\ \E f \in Fills :
       LET grad_output == Buffer(ret.shape, f)
           gx == unbroadcast(grad_output, x.shape)
           gy == unbroadcast(grad_output, y.shape)
       IN /\ grad_x' = Result(gx)
          /\ grad_y' = Result(gy)
          /\ ret' = [ok |-> TRUE, shape |-> grad_output.shape, data |-> grad_output.data]
          /\ nbuf' = nbuf + gx.nbuf + gy.nbuf
          /\ nkern' = nkern + gx.nkern + gy.nkern
  /\ op' = "add_backward"
  /\ UNCHANGED <<x, y, axis, in_sh, idx_a, idx_b>>
  /\ UNCHANGED notTensor

\* reduce_op(ctx, "out += a", "out", x, axis)
ReduceOp ==
  /\ op = "start"
  /\ \E a \in AxisLists :
       LET r == reduce_op(x, a)
       IN /\ axis' = a
          /\ ret' = Result(r)
          /\ nbuf' = nbuf + r.nbuf
          /\ nkern' = nkern + r.nkern
  /\ op' = "reduce_op"
  /\ UNCHANGED <<x, y, in_sh, grad_x, grad_y, idx_a, idx_b>>
  /\ UNCHANGED notTensor

\* Sum.forward(ctx, x, axis)
SumFwd ==
  /\ op = "start"
  /\ \E a \in AxisLists :
       LET r == SumForward(x, a)
       IN /\ axis' = a
          /\ ret' = Result(r)
          /\ nbuf' = nbuf + r.nbuf
          /\ nkern' = nkern + r.nkern
  /\ op' = "sum"
  /\ UNCHANGED <<x, y, in_sh, grad_x, grad_y, idx_a, idx_b>>
  /\ UNCHANGED notTensor

\* right-aligned (numpy) broadcasting, as the documentation states it
LeadPad(shape, n) == [i \in 1..n |-> IF i <= n - Len(shape) THEN 1 ELSE shape[i - (n - Len(shape))]]

BroadcastsTo(s, t) ==
  /\ Len(s) <= Len(t)
  /\ \A i \in 1..Len(t) : LeadPad(s, Len(t))[i] \in {1, t[i]}

\* unbroadcast(ctx, x, in_sh) for an original shape that broadcasts to x.shape
Unbroadcast ==
  /\ op = "start"
  /\ \E s \in Shapes :
       /\ BroadcastsTo(s, x.shape)
       /\ LET r == unbroadcast(x, s)
          IN /\ in_sh' = s
             /\ ret' = Result(r)
             /\ nbuf' = nbuf + r.nbuf
             /\ nkern' = nkern + r.nkern
  /\ op' = "unbroadcast"
  /\ UNCHANGED <<x, y, axis, grad_x, grad_y, idx_a, idx_b>>
  /\ UNCHANGED notTensor

NextTensor ==
  \/ BinaryOp
  \/ AddBackward
  \/ ReduceOp
  \/ SumFwd
  \/ Unbroadcast

IdleTensor ==
  /\ op = "idle"
  /\ x = Buffer(<<1>>, "ones")
  /\ y = Buffer(<<1>>, "ones")
  /\ axis = NoAxis
  /\ in_sh = <<>>
  /\ ret = NoBuffer
  /\ grad_x = NoBuffer
  /\ grad_y = NoBuffer
  /\ nbuf = 0
  /\ nkern = 0
  /\ idx_a = <<>>
  /\ idx_b = <<>>

(* Properties of binary_op, unbroadcast and the reductions *)

\* the broadcast rule of the documentation on right-aligned shapes
RuleHolds(a, b) ==
  LET n == Max(Len(a), Len(b))
  IN \A i \in 1..n :
       \/ LeadPad(a, n)[i] = LeadPad(b, n)[i]
       \/ LeadPad(a, n)[i] = 1
       \/ LeadPad(b, n)[i] = 1

RuleShape(a, b) ==
  LET n == Max(Len(a), Len(b))
  IN [i \in 1..n |-> Max(LeadPad(a, n)[i], LeadPad(b, n)[i])]

\* C1: whenever binary_op has run on two shapes that satisfy the broadcast
\* rule once the shorter is padded with leading 1s, it returned a buffer whose
\* shape is the per-dimension maximum of the right-aligned shapes.
C1_RightAlignedShape ==
  (op = "binary_op" /\ RuleHolds(x.shape, y.shape)) =>
     (ret.ok /\ ret.shape = RuleShape(x.shape, y.shape))

\* C2: whenever binary_op has run on two shapes with a right-aligned dimension
\* whose sizes differ and are both not 1, it ended in an error with no buffer
\* allocated and no kernel dispatched.
C2_MismatchIsAnError ==
  (op = "binary_op" /\ ~RuleHolds(x.shape, y.shape)) =>
     (~ret.ok /\ nbuf = 0 /\ nkern = 0)

Coord(flat, shape, i) ==
  (flat \div Prod(SubSeq(shape, i + 1, Len(shape)))) % shape[i]

\* the sum of grad over exactly the dimensions where s (right-aligned) is 1 or
\* absent, by explicit summation
DirectUnbroadcast(grad, s) ==
  LET t == grad.shape
      sp == LeadPad(s, Len(t))
  IN [k \in 1..Prod(s) |->
        SumSeq([g \in 1..Prod(t) |->
                  IF \A i \in 1..Len(t) :
                        sp[i] = 1 \/ Coord(g - 1, t, i) = Coord(k - 1, sp, i)
                  THEN grad.data[g] ELSE 0])]

\* C3: unbroadcast of a gradient of shape T to an original shape S that
\* broadcasts to T returns a buffer of shape S holding the sums of the gradient
\* over the expanded dimensions, and each gradient of Add.backward has the shape
\* of its own input.
C3_UnbroadcastShape ==
  /\ op = "unbroadcast" =>
       /\ ret.ok
       /\ ret.shape = in_sh
       /\ ret.data = DirectUnbroadcast(x, in_sh)
  /\ op = "add_backward" =>
       /\ grad_x.ok /\ grad_x.shape = x.shape
       /\ grad_y.ok /\ grad_y.shape = y.shape

\* C8: a reduction given an axis outside 0 <= axis < rank returns no buffer.
C8_AxisOutOfRangeFails ==
  (op \in {"reduce_op", "sum"} /\ ~axis.none
     /\ \E j \in 1..Len(axis.ax) : axis.ax[j] < 0 \/ axis.ax[j] >= Len(x.shape))
  => ~ret.ok

\* the row-major flat index, in an operand of shape shape_op, of the output
\* coordinates of gid, a dimension of size 1 contributing 0
RowMajor(gid, shape_op, shape_ret) ==
  SumSeq([i \in 1..Len(shape_ret) |->
            (IF shape_op[i] = 1 THEN 0 ELSE Coord(gid, shape_ret, i))
            * Prod(SubSeq(shape_op, i + 1, Len(shape_op)))])

\* C12: whenever binary_op has dispatched the binop kernel, then for every
\* work item gid below the product of the output shape the index the loop
\* idx = idx*operand_dim + (out_dim_index % operand_dim) yields for each
\* operand, and the index the kernel used, is the row-major index of the
\* operand element at the output coordinates with size-1 dimensions
\* contributing 0; it lies inside the operand; and when the two shapes are
\* equal the shortcut index gid equals what the loop yields.
C12_BinopIndexIsRowMajor ==
  (op = "binary_op" /\ ret.ok) =>
    LET n_dims == Len(ret.shape)
        shape_x == PadShape(x.shape, n_dims)
        shape_y == PadShape(y.shape, n_dims)
    IN /\ Len(idx_a) = Prod(ret.shape)
       /\ Len(idx_b) = Prod(ret.shape)
       /\ \A gid \in 0..(Prod(ret.shape) - 1) :
            /\ BinopIdx(gid, shape_x, ret.shape) = RowMajor(gid, shape_x, ret.shape)
            /\ BinopIdx(gid, shape_y, ret.shape) = RowMajor(gid, shape_y, ret.shape)
            /\ idx_a[gid + 1] = RowMajor(gid, shape_x, ret.shape)
            /\ idx_b[gid + 1] = RowMajor(gid, shape_y, ret.shape)
            /\ idx_a[gid + 1] \in 0..(Prod(x.shape) - 1)
            /\ idx_b[gid + 1] \in 0..(Prod(y.shape) - 1)
            /\ x.shape = y.shape =>
                 /\ idx_a[gid + 1] = gid
                 /\ idx_b[gid + 1] = gid
                 /\ BinopIdx(gid, shape_x, ret.shape) = gid
                 /\ BinopIdx(gid, shape_y, ret.shape) = gid

\* the kernel has run with x of lower rank than y and broadcast along the
\* last dimension: some work item reads an element of x other than its own
\* gid and other than element 0
C12_Witness ==
  /\ op = "binary_op"
  /\ ret.ok
  /\ Len(x.shape) < Len(y.shape)
  /\ \E gid \in 1..Len(idx_a) : idx_a[gid] # gid - 1 /\ idx_a[gid] > 0 /\ idx_b[gid] = gid - 1

-----------------------------------------------------------------------------
(* clbuild: cl.Program(...).build() behind functools.lru_cache() *)

\* functools.lru_cache() without arguments keeps at most 128 entries
maxsize == 128

Keys == 1..(maxsize + MoreKeys)

Threads == 1..NThreads

\* the cache is the list of [key, handle] entries, least recently used first
CacheKeys(c) == {c[i].key : i \in 1..Len(c)}

CacheGet(c, k) == (CHOOSE i \in 1..Len(c) : c[i].key = k)

\* a hit moves the entry to the most recently used end
Touch(c, k) ==
  LET i == CacheGet(c, k)
  IN Append(SubSeq(c, 1, i - 1) \o SubSeq(c, i + 1, Len(c)), c[i])

\* after the wrapped function returned: a key that was added meanwhile is left
\* alone, a full cache drops its oldest entry
Insert(c, k, h) ==
  IF k \in CacheKeys(c) THEN c
  ELSE IF Len(c) >= maxsize THEN Append(Tail(c), [key |-> k, handle |-> h])
  ELSE Append(c, [key |-> k, handle |-> h])

InitCache ==
  /\ cache = <<>>
  /\ compiles = [k \in Keys |-> 0]
  /\ got = [k \in Keys |-> {}]
  /\ nprog = 0
  /\ tpc = [t \in Threads |-> "idle"]
  /\ tkey = [t \in Threads |-> 0]
  /\ tprog = [t \in Threads |-> 0]

\* the callers of the concurrent model ask for the first ThreadKeys keys only
InitThreads ==
  /\ cache = <<>>
  /\ compiles = [k \in 1..ThreadKeys |-> 0]
  /\ got = [k \in 1..ThreadKeys |-> {}]
  /\ nprog = 0
  /\ tpc = [t \in Threads |-> "idle"]
  /\ tkey = [t \in Threads |-> 0]
  /\ tprog = [t \in Threads |-> 0]

IdleCache ==
  /\ cache = <<>>
  /\ compiles = <<>>
  /\ got = <<>>
  /\ nprog = 0
  /\ tpc = <<>>
  /\ tkey = <<>>
  /\ tprog = <<>>

\* the keys requested so far, and the next one never requested
Requested == {k \in Keys : compiles[k] > 0}

NextKeys == {1} \cup {k \in Keys : k = Cardinality(Requested) + 1}

\* one whole call clbuild(cl_ctx, name, prg) by a single caller; the triple is
\* the key.  Requests are for the first key or for the next unused one.
Clbuild ==
  /\ \E k \in NextKeys :
       IF k \in CacheKeys(cache)
       THEN /\ cache' = Touch(cache, k)
            /\ got' = [got EXCEPT ![k] = @ \cup {cache[CacheGet(cache, k)].handle}]
            /\ UNCHANGED <<compiles, nprog>>
       ELSE /\ nprog' = nprog + 1
            /\ compiles' = [compiles EXCEPT ![k] = @ + 1]
            /\ cache' = Insert(cache, k, nprog + 1)
            /\ got' = [got EXCEPT ![k] = @ \cup {nprog + 1}]
  /\ UNCHANGED <<tpc, tkey, tprog>>
  /\ UNCHANGED notCache

NextCache == Clbuild

\* C4: however many distinct keys are requested and in whatever order, each key
\* is compiled at most once and every request for it returns the same handle.
C4_CompiledOncePerKey ==
  \A k \in Keys : compiles[k] <= 1 /\ Cardinality(got[k]) <= 1

(* Concurrent callers: the lookup and the insertion are atomic, the call of *)
(* the wrapped function between them is not                                  *)

\* thread t calls clbuild: the lookup
Lookup(t) ==
  /\ tpc[t] = "idle"
  /\ \E k \in 1..ThreadKeys :
       IF k \in CacheKeys(cache)
       THEN /\ cache' = Touch(cache, k)
            /\ got' = [got EXCEPT ![k] = @ \cup {cache[CacheGet(cache, k)].handle}]
            /\ tpc' = [tpc EXCEPT ![t] = "done"]
            /\ tkey' = [tkey EXCEPT ![t] = k]
            /\ tprog' = [tprog EXCEPT ![t] = cache[CacheGet(cache, k)].handle]
       ELSE /\ tpc' = [tpc EXCEPT ![t] = "build"]
            /\ tkey' = [tkey EXCEPT ![t] = k]
            /\ UNCHANGED <<cache, got, tprog>>
  /\ UNCHANGED <<compiles, nprog>>
  /\ UNCHANGED notCache

\* after a miss: cl.Program(cl_ctx, prg).build()
Build(t) ==
  /\ tpc[t] = "build"
  /\ nprog' = nprog + 1
  /\ compiles' = [compiles EXCEPT ![tkey[t]] = @ + 1]
  /\ tprog' = [tprog EXCEPT ![t] = nprog + 1]
  /\ tpc' = [tpc EXCEPT ![t] = "insert"]
  /\ UNCHANGED <<cache, got, tkey>>
  /\ UNCHANGED notCache

\* the result is stored, unless the key is there by now, and returned
Store(t) ==
  /\ tpc[t] = "insert"
  /\ cache' = Insert(cache, tkey[t], tprog[t])
  /\ got' = [got EXCEPT ![tkey[t]] = @ \cup {tprog[t]}]
  /\ tpc' = [tpc EXCEPT ![t] = "done"]
  /\ UNCHANGED <<compiles, nprog, tkey, tprog>>
  /\ UNCHANGED notCache

\* the caller goes on to its next dispatch
Return(t) ==
  /\ tpc[t] = "done"
  /\ tpc' = [tpc EXCEPT ![t] = "idle"]
  /\ UNCHANGED <<cache, compiles, got, nprog, tkey, tprog>>
  /\ UNCHANGED notCache

NextThreads == \E t \in Threads : Lookup(t) \/ Build(t) \/ Store(t) \/ Return(t)

\* C5: when threads request the same uncached key concurrently, the key is
\* compiled at most once and all of them get the same handle.
C5_ConcurrentCompiledOnce ==
  \A k \in 1..ThreadKeys : compiles[k] <= 1 /\ Cardinality(got[k]) <= 1

-----------------------------------------------------------------------------
(* Pad2D *)

Zeros(shape) == [shape |-> shape, data |-> [k \in 1..Prod(shape) |-> 0]]

\* what a kernel reads at flat index i of a buffer: outside the buffer the
\* value is whatever the device returns
ReadAt(data, i, garbage) == IF 0 <= i /\ i < Len(data) THEN data[i + 1] ELSE garbage

\* the pad2d kernel over the global size gsz = <<n0, n1, n2>>, in the order of
\* its parameters; out is the output buffer's contents before the dispatch
Pad2dIptr(BC, Y, X, ipx, ipy, iy, ix) == BC * iy * ix + (Y + ipy) * ix + ipx + X

Pad2dOptr(BC, Y, X, py, px, oy, ox) == BC * oy * ox + (Y + py) * ox + px + X

WorkItems(gsz) == (0..(gsz[1] - 1)) \X (0..(gsz[2] - 1)) \X (0..(gsz[3] - 1))

pad2d(gsz, input, out, ipx, ipy, py, px, oy, ox, iy, ix, garbage) ==
  [o \in 1..Len(out) |->
     LET writers == {w \in WorkItems(gsz) :
                       Pad2dOptr(w[1], w[2], w[3], py, px, oy, ox) = o - 1}
     IN IF writers = {} THEN out[o]
        ELSE LET w == CHOOSE w \in writers : TRUE
             IN ReadAt(input, Pad2dIptr(w[1], w[2], w[3], ipx, ipy, iy, ix), garbage)]

\* the flat indices read by the dispatch that lie outside the input
Pad2dOob(gsz, input, ipx, ipy, iy, ix) ==
  {Pad2dIptr(w[1], w[2], w[3], ipx, ipy, iy, ix) : w \in WorkItems(gsz)}
    \ (0..(Len(input) - 1))

\* Pad2D.forward(ctx, x, padding)
Pad2DForward(bx, pad) ==
  LET bs == bx.shape[1]
      cin == bx.shape[2]
      iy == bx.shape[3]
      ix == bx.shape[4]
      oy == iy + pad[3] + pad[4]
      ox == ix + pad[1] + pad[2]
      r == Zeros(<<bs, cin, oy, ox>>)
  IN [shape |-> r.shape,
      data |-> pad2d(<<bs * cin, iy, ix>>, bx.data, r.data,
                     0, 0, pad[3], pad[1], oy, ox, iy, ix, 0)]

\* the arguments Pad2D.backward passes for ipx, ipy
BackwardIpx(pad) == pad[3]

BackwardIpy(pad) == pad[1]

\* Pad2D.backward(ctx, grad_output); the output buffer is uninitialised
Pad2DBackward(g, pad, garbage) ==
  LET bs == g.shape[1]
      cin == g.shape[2]
      iy == g.shape[3]
      ix == g.shape[4]
      oy == iy - pad[3] - pad[4]
      ox == ix - pad[1] - pad[2]
      shape == <<bs, cin, oy, ox>>
  IN [shape |-> shape,
      data |-> pad2d(<<bs * cin, oy, ox>>, g.data, [k \in 1..Prod(shape) |-> garbage],
                     BackwardIpx(pad), BackwardIpy(pad), 0, 0, oy, ox, iy, ix, garbage),
      oob |-> Pad2dOob(<<bs * cin, oy, ox>>, g.data, BackwardIpx(pad), BackwardIpy(pad), iy, ix)]

Garbage == {0, -1}

PadShapes == {<<bs, 1, iy, ix>> : bs \in 1..MaxImages, iy \in 1..MaxSide, ix \in 1..MaxSide}

InitPad ==
  /\ pad_op = "start"
  /\ \E s \in PadShapes : pad_x = Buffer(s, "iota")
  /\ padding \in [1..4 -> 0..MaxPad]
  /\ pad_ret = Zeros(<<1>>)
  /\ pad_gout = Zeros(<<1>>)
  /\ pad_grad = Zeros(<<1>>)
  /\ pad_oob = {}

IdlePad ==
  /\ pad_op = "idle"
  /\ pad_x = Zeros(<<1>>)
  /\ padding = <<0, 0, 0, 0>>
  /\ pad_ret = Zeros(<<1>>)
  /\ pad_gout = Zeros(<<1>>)
  /\ pad_grad = Zeros(<<1>>)
  /\ pad_oob = {}

PadForward ==
  /\ pad_op = "start"
  /\ pad_ret' = Pad2DForward(pad_x, padding)
  /\ pad_op' = "forward"
  /\ UNCHANGED <<pad_x, padding, pad_gout, pad_grad, pad_oob>>
  /\ UNCHANGED notPad

\* backward on the forward's own output, or on a gradient of that shape whose
\* elements are all different
PadBackward ==
  /\ pad_op = "forward"
  /\ \E g \in {pad_ret, Buffer(pad_ret.shape, "iota")}, garbage \in Garbage :
       LET r == Pad2DBackward(g, padding, garbage)
       IN /\ pad_gout' = g
          /\ pad_grad' = [shape |-> r.shape, data |-> r.data]
          /\ pad_oob' = r.oob
  /\ pad_op' = "backward"
  /\ UNCHANGED <<pad_x, padding, pad_ret>>
  /\ UNCHANGED notPad

NextPad == PadForward \/ PadBackward

\* row-major flat index (0-based) of (b, c, yy, xx) in a 4D shape
Flat4(shape, b, c, yy, xx) == ((b * shape[2] + c) * shape[3] + yy) * shape[4] + xx

\* C6: Pad2D.backward crops by the amounts the forward padded: its output has
\* the input's shape, element (b,c,y,x) is grad_output's (b,c,y+top,x+left),
\* applied to the forward's output it returns x, and it reads inside grad_output.
C6_BackwardCropsForward ==
  pad_op = "backward" =>
    /\ pad_grad.shape = pad_x.shape
    /\ \A b \in 0..(pad_x.shape[1] - 1), c \in 0..(pad_x.shape[2] - 1),
          yy \in 0..(pad_x.shape[3] - 1), xx \in 0..(pad_x.shape[4] - 1) :
          pad_grad.data[Flat4(pad_x.shape, b, c, yy, xx) + 1] =
            pad_gout.data[Flat4(pad_gout.shape, b, c, yy + padding[3], xx + padding[1]) + 1]
    /\ (pad_gout = pad_ret => pad_grad.data = pad_x.data)
    /\ pad_oob = {}

-----------------------------------------------------------------------------
(* subsample_op, supersample_op, MaxPool2D *)

\* stands for -FLT_MAX: below every value an input holds
NegFltMax == -1000

\* iter_op of the two forward kernels, on the loop state [maxval, maxidx]
GreaterOrEqual(a, b) == a >= b

Greater(a, b) == a > b

IterArgmax(st, v, j, i, ksz_x) ==
  IF Greater(v, st.maxval) THEN [maxval |-> v, maxidx |-> j * ksz_x + i] ELSE st

IterMax(st, v, j, i, ksz_x) == [st EXCEPT !.maxval = Max(st.maxval, v)]

\* the double loop of the subsample kernel for work item gid = (gx, gy, gz),
\* p counting the iterations: j = p / ksz.x, i = p % ksz.x
RECURSIVE SubsampleLoop(_,_,_,_,_,_,_,_,_,_)
SubsampleLoop(p, st, kind, input, gx, gy, gz, isize, ksz, stride) ==
  IF p >= ksz.x * ksz.y THEN st
  ELSE LET j == p \div ksz.x
           i == p % ksz.x
           iid == (gx * stride.x + i) + isize.x * ((gy * stride.y + j) + isize.y * gz)
           st2 == IF gx * stride.x + i < isize.x /\ gy * stride.y + j < isize.y
                  THEN IF kind = "argmax"
                       THEN IterArgmax(st, input[iid + 1], j, i, ksz.x)
                       ELSE IterMax(st, input[iid + 1], j, i, ksz.x)
                  ELSE st
       IN SubsampleLoop(p + 1, st2, kind, input, gx, gy, gz, isize, ksz, stride)

\* subsample_op(ctx, input, kernel_size, stride, iter_op, result_op, decls)
subsample_op(input, ks, strd, kind) ==
  LET py == strd[1]
      px == strd[2]
      N == input.shape[1]
      C == input.shape[2]
      Yin == input.shape[3]
      Xin == input.shape[4]
      Yout == (Yin - ks[1]) \div py + 1
      Xout == (Xin - ks[2]) \div px + 1
      osize == [x |-> Xout, y |-> Yout]
      isize == [x |-> Xin, y |-> Yin]
      ksz == [x |-> ks[2], y |-> ks[1]]
      stride == [x |-> px, y |-> py]
  IN [shape |-> <<N, C, Yout, Xout>>,
      data |-> [o \in 1..(N * C * Yout * Xout) |->
                  LET gx == (o - 1) % Xout
                      gy == ((o - 1) \div Xout) % Yout
                      gz == (o - 1) \div (Xout * Yout)
                      st == SubsampleLoop(0, [maxval |-> NegFltMax, maxidx |-> 0],
                                          kind, input.data, gx, gy, gz, isize, ksz, stride)
                  IN IF kind = "argmax" THEN st.maxidx ELSE st.maxval]]

\* decls of MaxPool2D.backward: the offset of the output cell in its window
Kernidx(gx, gy, ksz) == (gx % ksz.x) + ksz.x * (gy % ksz.y)

\* supersample_op(ctx, input, out_shape, kernel_size, result_op, decls, input2)
\* with MaxPool2D.backward's result_op; input2 is read before the bounds test
supersample_op(input, out_shape, ks, input2, garbage) ==
  LET N == input.shape[1]
      C == input.shape[2]
      Yin == input.shape[3]
      Xin == input.shape[4]
      Yout == out_shape[3]
      Xout == out_shape[4]
      py == ks[1]
      px == ks[2]
      osize == [x |-> Xout, y |-> Yout]
      isize == [x |-> Xin, y |-> Yin]
      ksz == [x |-> px, y |-> py]
  IN [shape |-> out_shape,
      data |-> [o \in 1..Prod(out_shape) |->
                  LET gx == (o - 1) % Xout
                      gy == ((o - 1) \div Xout) % Yout
                      gz == (o - 1) \div (Xout * Yout)
                      iid == (gx \div ksz.x) + isize.x * ((gy \div ksz.y) + isize.y * gz)
                      maxidx == ReadAt(input2.data, iid, garbage)
                      kernidx == Kernidx(gx, gy, ksz)
                  IN IF gx \div ksz.x < isize.x /\ gy \div ksz.y < isize.y
                     THEN (IF maxidx = kernidx THEN 1 ELSE 0) * input.data[iid + 1]
                     ELSE 0]]

PoolShapes ==
  {s \in {<<n, 1, yy, xx>> : n \in 1..MaxPoolImages,
                                yy \in 1..MaxPoolSide, xx \in 1..MaxPoolSide} :
     s[3] * s[4] <= MaxPoolCells}

\* the input: any 0/1 contents of the first image, image z holding the same
\* shifted by z (mod 2)
PoolInputs ==
  UNION {{[shape |-> s,
           data |-> [k \in 1..Prod(s) |->
                       (img[((k - 1) % (s[3] * s[4])) + 1] + (k - 1) \div (s[3] * s[4])) % 2]] :
            img \in [1..(s[3] * s[4]) -> {0, 1}]} : s \in PoolShapes}

InitPool ==
  /\ pool_op = "start"
  /\ pool_in \in PoolInputs
  /\ kernel_size \in {k \in (1..MaxPoolSide) \X (1..MaxPoolSide) :
                        k[1] <= pool_in.shape[3] /\ k[2] <= pool_in.shape[4]}
  /\ idxs = Zeros(<<1>>)
  /\ pool_out = Zeros(<<1>>)
  /\ pool_gout = Zeros(<<1>>)
  /\ pool_grad = Zeros(<<1>>)

IdlePool ==
  /\ pool_op = "idle"
  /\ pool_in = Zeros(<<1>>)
  /\ kernel_size = <<1, 1>>
  /\ idxs = Zeros(<<1>>)
  /\ pool_out = Zeros(<<1>>)
  /\ pool_gout = Zeros(<<1>>)
  /\ pool_grad = Zeros(<<1>>)

\* MaxPool2D.forward(ctx, input, kernel_size)
MaxPoolForward ==
  /\ pool_op = "start"
  /\ idxs' = subsample_op(pool_in, kernel_size, kernel_size, "argmax")
  /\ pool_out' = subsample_op(pool_in, kernel_size, kernel_size, "max")
  /\ pool_op' = "forward"
  /\ UNCHANGED <<pool_in, kernel_size, pool_gout, pool_grad>>
  /\ UNCHANGED notPool

\* MaxPool2D.backward(ctx, grad_output), grad_output of the forward's shape
\* with all elements different and not 0
MaxPoolBackward ==
  /\ pool_op = "forward"
  /\ \E garbage \in Garbage :
       /\ pool_gout' = Buffer(pool_out.shape, "iota")
       /\ pool_grad' = supersample_op(Buffer(pool_out.shape, "iota"), pool_in.shape,
                                      kernel_size, idxs, garbage)
  /\ pool_op' = "backward"
  /\ UNCHANGED <<pool_in, kernel_size, idxs, pool_out>>
  /\ UNCHANGED notPool

NextPool == MaxPoolForward \/ MaxPoolBackward

(* MaxPool2D.backward against the windows, cell by cell *)

\* the cells (offsets j * kx + i) of the complete window (wy, wx) of image z
WindowCell(z, wy, wx, off) ==
  pool_in.data[Flat4(pool_in.shape, z, 0, wy * kernel_size[1] + (off \div kernel_size[2]),
                     wx * kernel_size[2] + (off % kernel_size[2])) + 1]

\* the first offset in row-major order that holds the window's maximum
FirstMax(z, wy, wx) ==
  CHOOSE off \in 0..(kernel_size[1] * kernel_size[2] - 1) :
    /\ \A o2 \in 0..(kernel_size[1] * kernel_size[2] - 1) :
         WindowCell(z, wy, wx, o2) <= WindowCell(z, wy, wx, off)
    /\ \A o2 \in 0..(off - 1) : WindowCell(z, wy, wx, o2) < WindowCell(z, wy, wx, off)

\* C7: MaxPool2D.backward gives each complete window's grad_output to the one
\* cell at the offset recorded by forward, which is the first cell in row-major
\* order holding the window's maximum, and 0 to every other cell, those of
\* trailing partial windows included.
C7_GradientToArgmax ==
  pool_op = "backward" =>
    /\ pool_grad.shape = pool_in.shape
    /\ \A z \in 0..(pool_in.shape[1] - 1),
          yy \in 0..(pool_in.shape[3] - 1), xx \in 0..(pool_in.shape[4] - 1) :
          LET wy == yy \div kernel_size[1]
              wx == xx \div kernel_size[2]
              off == (yy % kernel_size[1]) * kernel_size[2] + (xx % kernel_size[2])
              g == pool_grad.data[Flat4(pool_in.shape, z, 0, yy, xx) + 1]
          IN IF wy < pool_out.shape[3] /\ wx < pool_out.shape[4]
             THEN /\ idxs.data[Flat4(pool_out.shape, z, 0, wy, wx) + 1] = FirstMax(z, wy, wx)
                  /\ pool_out.data[Flat4(pool_out.shape, z, 0, wy, wx) + 1]
                       = WindowCell(z, wy, wx, FirstMax(z, wy, wx))
                  /\ g = IF off = FirstMax(z, wy, wx)
                         THEN pool_gout.data[Flat4(pool_out.shape, z, 0, wy, wx) + 1]
                         ELSE 0
             ELSE g = 0

\* a backward has run on an input with a tie inside a window, a trailing
\* partial window and a second image
C7_Witness ==
  /\ pool_op = "backward"
  /\ pool_in.shape[1] > 1
  /\ kernel_size[1] * kernel_size[2] > 1
  /\ pool_in.shape[3] % kernel_size[1] # 0
  /\ pool_in.shape[4] % kernel_size[2] # 0
  /\ \E off \in 1..(kernel_size[1] * kernel_size[2] - 1) :
       /\ FirstMax(0, 0, 0) < off
       /\ WindowCell(0, 0, 0, off) = WindowCell(0, 0, 0, FirstMax(0, 0, 0))
  /\ \E k \in 1..Len(pool_grad.data) : pool_grad.data[k] # 0

-----------------------------------------------------------------------------
(* Reshape *)

\* Python's // on integers, b # 0
FloorDiv(a, b) == IF b > 0 THEN a \div b ELSE (0 - a) \div (0 - b)

\* shape = tuple(-np.prod(x.shape) // np.prod(shape) if s == -1 else s for s in shape)
InferShape(xshape, shape) ==
  [i \in 1..Len(shape) |->
     IF shape[i] = -1 THEN FloorDiv(0 - Prod(xshape), Prod(shape)) ELSE shape[i]]

\* Reshape.forward: the buffer is aliased under the new shape, then the assert
ReshapeFwd(xshape, shape) ==
  LET r == InferShape(xshape, shape)
  IN IF Prod(xshape) = Prod(r) THEN [ok |-> TRUE, shape |-> r]
     ELSE [ok |-> FALSE, shape |-> <<>>]

ReqDims == {-1} \cup (1..MaxDim)

ReqShapes == UNION {[1..n -> ReqDims] : n \in 1..MaxReshapeRank}

InitReshape ==
  /\ rs_op = "start"
  /\ rs_x \in Shapes
  /\ rs_shape = <<>>
  /\ rs_ret = [ok |-> FALSE, shape |-> <<>>]

IdleReshape ==
  /\ rs_op = "idle"
  /\ rs_x = <<1>>
  /\ rs_shape = <<>>
  /\ rs_ret = [ok |-> FALSE, shape |-> <<>>]

\* Reshape.forward(ctx, x, shape)
ReshapeForward ==
  /\ rs_op = "start"
  /\ \E shape \in ReqShapes :
       /\ rs_shape' = shape
       /\ rs_ret' = ReshapeFwd(rs_x, shape)
  /\ rs_op' = "forward"
  /\ UNCHANGED rs_x
  /\ UNCHANGED notReshape

\* Reshape.backward(ctx, grad_output): grad_output under the saved input shape
ReshapeBackward ==
  /\ rs_op = "forward"
  /\ rs_ret.ok
  /\ rs_ret' = [ok |-> TRUE, shape |-> rs_x]
  /\ rs_op' = "backward"
  /\ UNCHANGED <<rs_x, rs_shape>>
  /\ UNCHANGED notReshape

NextReshape == ReshapeForward \/ ReshapeBackward

Placeholders(shape) == {i \in 1..Len(shape) : shape[i] = -1}

Others(shape) == Prod([i \in 1..Len(shape) |-> IF shape[i] = -1 THEN 1 ELSE shape[i]])

\* the requested shape is one the documentation accepts for an input of n elements
Reshapable(n, shape) ==
  /\ Cardinality(Placeholders(shape)) <= 1
  /\ IF Placeholders(shape) = {} THEN Others(shape) = n
     ELSE n % Others(shape) = 0

\* C9: Reshape.forward returns a result only for a requested shape with at most
\* one -1 whose element count, the -1 inferred, equals the input's; the result
\* then has no negative dimension and the input's element count; every other
\* request fails.
C9_ReshapeChecksRequest ==
  rs_op = "forward" =>
    /\ rs_ret.ok =>
         /\ Reshapable(Prod(rs_x), rs_shape)
         /\ \A i \in 1..Len(rs_ret.shape) : rs_ret.shape[i] >= 0
         /\ Prod(rs_ret.shape) = Prod(rs_x)
    /\ ~Reshapable(Prod(rs_x), rs_shape) => ~rs_ret.ok

-----------------------------------------------------------------------------
(* Dot *)

\* the matmul kernel over the global size <<n0, n1>>; res is the result
\* buffer's contents before the dispatch, left where no work item writes
MatmulCell(X, Y, a, b, is0, is1, msize, ws0, ws1, garbage) ==
  SumSeq([xx \in 1..msize |->
            ReadAt(a, X * is0 + (xx - 1) * is1, garbage)
              * ReadAt(b, Y * ws0 + (xx - 1) * ws1, garbage)])

matmul(gsz, a, b, res, is0, is1, msize, ws0, ws1, osize, garbage) ==
  LET items == (0..(gsz[1] - 1)) \X (0..(gsz[2] - 1))
      reads == UNION {UNION {{<<"input", w[1] * is0 + xx * is1>>,
                              <<"weight", w[2] * ws0 + xx * ws1>>} : xx \in 0..(msize - 1)} :
                        w \in items}
  IN [data |-> [o \in 1..Len(res) |->
                  LET writers == {w \in items : w[1] * osize + w[2] = o - 1}
                  IN IF writers = {} THEN res[o]
                     ELSE LET w == CHOOSE w \in writers : TRUE
                          IN MatmulCell(w[1], w[2], a, b, is0, is1, msize, ws0, ws1, garbage)],
      \* indices read or written outside their buffer
      oob |-> {r \in reads : r[2] < 0 \/ r[2] >= (IF r[1] = "input" THEN Len(a) ELSE Len(b))}
                \cup {<<"res", w[1] * osize + w[2]>> : w \in
                        {w \in items : w[1] * osize + w[2] < 0 \/ w[1] * osize + w[2] >= Len(res)}},
      \* every element of res is written by exactly one work item
      once |-> \A o \in 1..Len(res) :
                 Cardinality({w \in items : w[1] * osize + w[2] = o - 1}) = 1]

\* the arguments after the three buffers, as <<is0, is1, msize, ws0, ws1, osize>>
ForwardArgs(isize, msize, osize) == <<msize, 1, msize, 1, osize, osize>>

GradInputArgs(isize, msize, osize) == <<osize, 1, osize, osize, 1, msize>>

\* the input passed with the forward's strides, not transposed
GradWeightArgsUntransposed(isize, msize, osize) == <<msize, 1, isize, 1, osize, osize>>

GradWeightArgs(isize, msize, osize) == <<1, msize, isize, 1, osize, osize>>

Uninit(n, garbage) == [k \in 1..n |-> garbage]

MatShapes == (1..MaxMat) \X (1..MaxMat)

InitDot ==
  /\ dot_op = "start"
  /\ \E si \in MatShapes, sw \in MatShapes, f \in Fills :
       /\ si[2] = sw[1]
       /\ dot_input = Buffer(si, "iota")
       /\ dot_weight = Buffer(sw, f)
  /\ dot_ret = Zeros(<<1>>)
  /\ dot_grad_output = Zeros(<<1>>)
  /\ dot_grad_input = Zeros(<<1>>)
  /\ dot_grad_weight = Zeros(<<1>>)
  /\ dot_oob = {}
  /\ dot_once = TRUE

IdleDot ==
  /\ dot_op = "idle"
  /\ dot_input = Zeros(<<1>>)
  /\ dot_weight = Zeros(<<1>>)
  /\ dot_ret = Zeros(<<1>>)
  /\ dot_grad_output = Zeros(<<1>>)
  /\ dot_grad_input = Zeros(<<1>>)
  /\ dot_grad_weight = Zeros(<<1>>)
  /\ dot_oob = {}
  /\ dot_once = TRUE

\* Dot.forward(ctx, dot_input, dot_weight)
DotForward ==
  /\ dot_op = "start"
  /\ \E garbage \in Garbage :
       LET isize == dot_input.shape[1]
           msize == dot_input.shape[2]
           osize == dot_weight.shape[2]
           a == ForwardArgs(isize, msize, osize)
           r == matmul(<<isize, osize>>, dot_input.data, dot_weight.data,
                       Uninit(isize * osize, garbage),
                       a[1], a[2], a[3], a[4], a[5], a[6], garbage)
       IN /\ dot_ret' = [shape |-> <<isize, osize>>, data |-> r.data]
          /\ dot_oob' = r.oob
          /\ dot_once' = r.once
  /\ dot_op' = "forward"
  /\ UNCHANGED <<dot_input, dot_weight, dot_grad_output, dot_grad_input, dot_grad_weight>>
  /\ UNCHANGED notDot

\* Dot.backward(ctx, dot_grad_output), dot_grad_output of the forward's shape
DotBackward ==
  /\ dot_op = "forward"
  /\ \E f \in Fills, garbage \in Garbage :
       LET isize == dot_input.shape[1]
           msize == dot_input.shape[2]
           osize == dot_weight.shape[2]
           g == Buffer(dot_ret.shape, f)
           ai == GradInputArgs(isize, msize, osize)
           aw == GradWeightArgs(isize, msize, osize)
           gi == matmul(<<isize, msize>>, g.data, dot_weight.data,
                        Uninit(Prod(dot_input.shape), garbage),
                        ai[1], ai[2], ai[3], ai[4], ai[5], ai[6], garbage)
           gw == matmul(<<msize, osize>>, dot_input.data, g.data,
                        Uninit(Prod(dot_weight.shape), garbage),
                        aw[1], aw[2], aw[3], aw[4], aw[5], aw[6], garbage)
       IN /\ dot_grad_output' = g
          /\ dot_grad_input' = [shape |-> dot_input.shape, data |-> gi.data]
          /\ dot_grad_weight' = [shape |-> dot_weight.shape, data |-> gw.data]
          /\ dot_oob' = {<<"grad_input", r>> : r \in gi.oob}
                          \cup {<<"grad_weight", r>> : r \in gw.oob}
          /\ dot_once' = (gi.once /\ gw.once)
  /\ dot_op' = "backward"
  /\ UNCHANGED <<dot_input, dot_weight, dot_ret>>
  /\ UNCHANGED notDot

NextDot == DotForward \/ DotBackward

\* element (r, c), 0-based, of a row-major matrix
At(buf, r, c) == buf.data[r * buf.shape[2] + c + 1]

\* C10: after Dot.backward, dot_grad_input[i][m] is the sum over o of
\* dot_grad_output[i][o] * dot_weight[m][o] and has the dot_input's shape, dot_grad_weight[m][o]
\* is the sum over i of dot_input[i][m] * dot_grad_output[i][o] and has the dot_weight's
\* shape, every index read or written was inside its buffer, and every output
\* element was written by exactly one work item.
C10_BackwardIsTransposedProduct ==
  dot_op = "backward" =>
    LET isize == dot_input.shape[1]
        msize == dot_input.shape[2]
        osize == dot_weight.shape[2]
    IN /\ dot_grad_input.shape = <<isize, msize>>
       /\ Len(dot_grad_input.data) = isize * msize
       /\ \A i \in 0..(isize - 1), mm \in 0..(msize - 1) :
            At(dot_grad_input, i, mm) =
              SumSeq([o \in 1..osize |-> At(dot_grad_output, i, o - 1) * At(dot_weight, mm, o - 1)])
       /\ dot_grad_weight.shape = <<msize, osize>>
       /\ Len(dot_grad_weight.data) = msize * osize
       /\ \A mm \in 0..(msize - 1), o \in 0..(osize - 1) :
            At(dot_grad_weight, mm, o) =
              SumSeq([i \in 1..isize |-> At(dot_input, i - 1, mm) * At(dot_grad_output, i - 1, o)])
       /\ dot_oob = {}
       /\ dot_once

\* backward has run for a 2x3 dot_input and a 3x2 dot_weight with dot_grad_output all ones
C10_Witness ==
  /\ dot_op = "backward"
  /\ dot_input.shape = <<2, 3>>
  /\ dot_weight.shape = <<3, 2>>
  /\ dot_weight.data = <<1, 2, 3, 4, 5, 6>>
  /\ dot_grad_output.data = <<1, 1, 1, 1>>
  /\ dot_grad_input.data = <<3, 7, 11, 3, 7, 11>>
  /\ dot_grad_weight.data = <<5, 5, 7, 7, 9, 9>>

-----------------------------------------------------------------------------
(* Conv2D.backward: the host code, the convw kernel and the work items of    *)
(* the convx kernel.  convx runs one work item per (B, g, ci); a work item   *)
(* walks the loop nest Y, X, y, x and performs dx[...] += acc once per       *)
(* iteration, which is a load of dx[...] followed by a store of the sum.     *)
(* The loads and stores of different work items interleave freely.           *)

\* oy,ox = (iy-(H-ys))//ys, (ix-(W-xs))//xs
ConvOut(isz, ksz, stride) == FloorDiv(isz - (ksz - stride), stride)

\* conv_args as the host computes them from the saved tensors and ctx
ConvArgs(xshape, wshape, ctx) ==
  LET iy == xshape[3]
      ix == xshape[4]
      H == wshape[3]
      W == wshape[4]
      ys == ctx.stride[1]
      xs == ctx.stride[2]
  IN [H |-> H, W |-> W, groups |-> ctx.groups, rcout |-> wshape[1] \div ctx.groups,
      cin |-> wshape[2], oy |-> ConvOut(iy, H, ys), ox |-> ConvOut(ix, W, xs),
      iy |-> iy, ix |-> ix, ys |-> ys, xs |-> xs, bs |-> xshape[1]]

\* one element of dw: work item (gid0, ky, kx) of convw
ConvwCell(a, tensx, ggg, gid0, ky, kx) ==
  LET g == gid0 \div (a.rcout * a.cin)
      c == (gid0 \div a.cin) % a.rcout
      ci == gid0 % a.cin
      term(Y, X, B) ==
        ggg[B * a.groups * a.rcout * a.oy * a.ox + g * a.rcout * a.oy * a.ox
            + c * a.oy * a.ox + Y * a.ox + X + 1]
        * tensx[B * a.groups * a.cin * a.iy * a.ix + g * a.cin * a.iy * a.ix
                + ci * a.iy * a.ix + (Y * a.ys + ky) * a.ix + X * a.xs + kx + 1]
  IN SumSeq([Y \in 1..a.oy |->
       SumSeq([X \in 1..a.ox |->
         SumSeq([B \in 1..a.bs |-> term(Y - 1, X - 1, B - 1)])])])

\* the convw kernel over the global size [groups*rcout*cin, H, W]; work item
\* (gid0, ky, kx) stores dw[gid0*H*W + ky*W + kx], so element i of dw is
\* written by the one work item with these ids
convw(a, tensx, ggg) ==
  [i \in 1..(a.groups * a.rcout * a.cin * a.H * a.W) |->
     ConvwCell(a, tensx, ggg, (i - 1) \div (a.H * a.W),
               ((i - 1) \div a.W) % a.H, (i - 1) % a.W)]

\* the global size of convx: [bs, groups, cin]
ConvxItems(a) == (0..(a.bs - 1)) \X (0..(a.groups - 1)) \X (0..(a.cin - 1))

\* iterations of the loop nest Y, X, y, x of one work item
ConvxIters(a) == a.oy * a.ox * a.H * a.W

\* the loop variables at iteration k of the nest (x innermost)
ConvxLoop(a, k) ==
  [Y |-> k \div (a.ox * a.H * a.W), X |-> (k \div (a.H * a.W)) % a.ox,
   ky |-> (k \div a.W) % a.H, kx |-> k % a.W]

\* acc of iteration k of work item t: the sum over c < rcout
ConvxAcc(a, tensw, ggg, t, k) ==
  LET l == ConvxLoop(a, k)
  IN SumSeq([c \in 1..a.rcout |->
       ggg[t[1] * a.groups * a.rcout * a.oy * a.ox + t[2] * a.rcout * a.oy * a.ox
           + (c - 1) * a.oy * a.ox + l.Y * a.ox + l.X + 1]
       * tensw[t[2] * a.rcout * a.cin * a.H * a.W + (c - 1) * a.cin * a.H * a.W
               + t[3] * a.H * a.W + l.ky * a.W + l.kx + 1]])

\* the dx index that iteration k of work item t = (B, g, ci) adds to
ConvxLocNoChannel(a, t, k) ==
  LET l == ConvxLoop(a, k)
  IN t[1] * a.groups * a.cin * a.iy * a.ix + t[2] * a.cin * a.iy * a.ix
     + (l.Y * a.ys + l.ky) * a.ix + l.X * a.xs + l.kx

ConvxLoc(a, t, k) ==
  LET l == ConvxLoop(a, k)
  IN t[1] * a.groups * a.cin * a.iy * a.ix + t[2] * a.cin * a.iy * a.ix
     + t[3] * a.iy * a.ix + (l.Y * a.ys + l.ky) * a.ix + l.X * a.xs + l.kx

\* strides and output channels per group that the model tries
ConvStrides == {1, 2}
ConvRcouts == {1, 2}

\* the convolutions of the model: a forward pass has succeeded on them, so the
\* kernel fits in the image
ConvConfigs ==
  {a \in [bs : 1..MaxConvItems, groups : 1..MaxConvItems, cin : 1..MaxConvItems,
          rcout : ConvRcouts, iy : 1..MaxConvSide, ix : 1..MaxConvSide,
          H : 1..MaxConvSide, W : 1..MaxConvSide, ys : ConvStrides, xs : ConvStrides] :
     /\ a.H <= a.iy
     /\ a.W <= a.ix
     /\ a.bs * a.groups * a.cin <= MaxConvItems
     /\ a.bs * a.groups * a.cin * ConvOut(a.iy, a.H, a.ys) * ConvOut(a.ix, a.W, a.xs)
          * a.H * a.W <= MaxConvSteps}

\* after Conv2D.forward: ctx holds x, w, the stride and the groups
InitConv ==
  \E a \in ConvConfigs :
    /\ conv_op = "forward"
    /\ conv_ctx = [stride |-> <<a.ys, a.xs>>, groups |-> a.groups]
    /\ conv_x = Buffer(<<a.bs, a.groups * a.cin, a.iy, a.ix>>, "iota")
    /\ conv_w = Buffer(<<a.groups * a.rcout, a.cin, a.H, a.W>>, "iota")
    /\ conv_args = <<>>
    /\ conv_gout = NoBuffer
    /\ conv_dx = NoBuffer
    /\ conv_dw = NoBuffer
    /\ wi_iter = <<>>
    /\ wi_ph = <<>>
    /\ wi_tmp = <<>>

IdleConv ==
  /\ conv_op = "none"
  /\ conv_ctx = <<>>
  /\ conv_args = <<>>
  /\ conv_x = NoBuffer
  /\ conv_w = NoBuffer
  /\ conv_gout = NoBuffer
  /\ conv_dx = NoBuffer
  /\ conv_dw = NoBuffer
  /\ wi_iter = <<>>
  /\ wi_ph = <<>>
  /\ wi_tmp = <<>>

\* the host part of backward: the asserts, buffer_zeros for dx, buffer_new for
\* dw, convw (which the in-order queue finishes before convx starts) and the
\* launch of the convx work items
Conv2DBackward ==
  /\ conv_op = "forward"
  /\ conv_w.shape[2] * conv_ctx.groups = conv_x.shape[2]
  /\ conv_w.shape[1] % conv_ctx.groups = 0
  /\ \E f \in Fills :
       LET a == ConvArgs(conv_x.shape, conv_w.shape, conv_ctx)
           grad_output == Buffer(<<a.bs, conv_w.shape[1], a.oy, a.ox>>, f)
       IN /\ conv_args' = a
          /\ conv_gout' = grad_output
          /\ conv_dx' = Zeros(conv_x.shape)
          /\ conv_dw' = [shape |-> conv_w.shape,
                         data |-> convw(a, conv_x.data, grad_output.data)]
          /\ wi_iter' = [t \in ConvxItems(a) |-> 0]
          /\ wi_ph' = [t \in ConvxItems(a) |-> "load"]
          /\ wi_tmp' = [t \in ConvxItems(a) |-> 0]
  /\ conv_op' = "convx"
  /\ UNCHANGED <<conv_ctx, conv_x, conv_w>>
  /\ UNCHANGED notConv

\* work item t loads dx[...] for the += of its current iteration
ConvxLoad(t) ==
  /\ conv_op = "convx"
  /\ wi_iter[t] < ConvxIters(conv_args)
  /\ wi_ph[t] = "load"
  /\ wi_tmp' = [wi_tmp EXCEPT ![t] = conv_dx.data[ConvxLoc(conv_args, t, wi_iter[t]) + 1]]
  /\ wi_ph' = [wi_ph EXCEPT ![t] = "store"]
  /\ UNCHANGED <<conv_op, conv_ctx, conv_args, conv_x, conv_w, conv_gout, conv_dx,
                 conv_dw, wi_iter>>
  /\ UNCHANGED notConv

\* work item t stores the loaded value plus acc and moves to the next iteration
ConvxStore(t) ==
  /\ conv_op = "convx"
  /\ wi_ph[t] = "store"
  /\ conv_dx' = [conv_dx EXCEPT
                   !.data[ConvxLoc(conv_args, t, wi_iter[t]) + 1] =
                     wi_tmp[t] + ConvxAcc(conv_args, conv_w.data, conv_gout.data,
                                          t, wi_iter[t])]
  /\ wi_iter' = [wi_iter EXCEPT ![t] = @ + 1]
  /\ wi_ph' = [wi_ph EXCEPT ![t] = "load"]
  /\ wi_tmp' = [wi_tmp EXCEPT ![t] = 0]
  /\ UNCHANGED <<conv_op, conv_ctx, conv_args, conv_x, conv_w, conv_gout, conv_dw>>
  /\ UNCHANGED notConv

\* every work item has left its loop nest: dx and dw are the gradients
Conv2DReturn ==
  /\ conv_op = "convx"
  /\ \A t \in ConvxItems(conv_args) : wi_iter[t] = ConvxIters(conv_args)
  /\ conv_op' = "done"
  /\ UNCHANGED <<conv_ctx, conv_args, conv_x, conv_w, conv_gout, conv_dx, conv_dw,
                 wi_iter, wi_ph, wi_tmp>>
  /\ UNCHANGED notConv

NextConv ==
  \/ Conv2DBackward
  \/ \E t \in DOMAIN wi_iter : ConvxLoad(t)
  \/ \E t \in DOMAIN wi_iter : ConvxStore(t)
  \/ Conv2DReturn

\* the dx indices work item t adds to
ConvxLocs(a, t) == {ConvxLoc(a, t, k) : k \in 0..(ConvxIters(a) - 1)}

\* the += a work item has completed: pairs <<t, k>> with k below its iteration
ConvxAdded == {p \in ConvxItems(conv_args) \X (0..(ConvxIters(conv_args) - 1)) :
                 p[2] < wi_iter[p[1]]}

RECURSIVE SumOver(_, _)
SumOver(f, S) ==
  IF S = {} THEN 0
  ELSE LET e == CHOOSE e \in S : TRUE IN f[e] + SumOver(f, S \ {e})

\* C11: while convx runs and after it, (a) the dx indices of two distinct work
\* items (B, g, ci) never coincide and all lie inside dx, (b) a work item
\* about to store finds dx[...] still holding the value it loaded, so no
\* interleaving loses an update, and (c) every element of dx is zero plus the
\* sum of the acc of every += completed on it: dx started all zero and each
\* contribution was added, none overwritten.
C11_ConvxAddsAreDisjoint ==
  conv_op \in {"convx", "done"} =>
    LET a == conv_args
        items == ConvxItems(a)
        acc == [p \in ConvxAdded |-> ConvxAcc(a, conv_w.data, conv_gout.data, p[1], p[2])]
    IN /\ conv_dx.shape = conv_x.shape
       /\ Len(conv_dx.data) = Prod(conv_x.shape)
       /\ \A t \in items : ConvxLocs(a, t) \subseteq 0..(Len(conv_dx.data) - 1)
       /\ \A t1 \in items, t2 \in items :
            t1 # t2 => ConvxLocs(a, t1) \cap ConvxLocs(a, t2) = {}
       /\ \A t \in items :
            wi_ph[t] = "store" =>
              wi_tmp[t] = conv_dx.data[ConvxLoc(a, t, wi_iter[t]) + 1]
       /\ \A i \in 0..(Len(conv_dx.data) - 1) :
            conv_dx.data[i + 1] =
              SumOver(acc, {p \in ConvxAdded : ConvxLoc(a, p[1], p[2]) = i})

\* two work items are both between the load and the store of a +=, one of
\* them on an element it has already added to
C11_Witness ==
  /\ conv_op = "convx"
  /\ \E t1 \in DOMAIN wi_iter, t2 \in DOMAIN wi_iter :
       /\ t1 # t2
       /\ wi_ph[t1] = "store"
       /\ wi_ph[t2] = "store"
       /\ wi_tmp[t1] > 0

-----------------------------------------------------------------------------
(* Specifications *)

StartTensor == InitTensor /\ IdleCache /\ IdlePad /\ IdlePool /\ IdleReshape /\ IdleDot /\ IdleConv

SpecTensor == StartTensor /\ [][NextTensor]_vars

StartCache == InitCache /\ IdleTensor /\ IdlePad /\ IdlePool /\ IdleReshape /\ IdleDot /\ IdleConv

SpecCache == StartCache /\ [][NextCache]_vars

StartThreads == InitThreads /\ IdleTensor /\ IdlePad /\ IdlePool /\ IdleReshape /\ IdleDot /\ IdleConv

SpecThreads == StartThreads /\ [][NextThreads]_vars

StartPad == InitPad /\ IdleTensor /\ IdleCache /\ IdlePool /\ IdleReshape /\ IdleDot /\ IdleConv

SpecPad == StartPad /\ [][NextPad]_vars

StartPool == InitPool /\ IdleTensor /\ IdleCache /\ IdlePad /\ IdleReshape /\ IdleDot /\ IdleConv

SpecPool == StartPool /\ [][NextPool]_vars

StartReshape == InitReshape /\ IdleTensor /\ IdleCache /\ IdlePad /\ IdlePool /\ IdleDot /\ IdleConv

SpecReshape == StartReshape /\ [][NextReshape]_vars

StartDot == InitDot /\ IdleTensor /\ IdleCache /\ IdlePad /\ IdlePool /\ IdleReshape /\ IdleConv

SpecDot == StartDot /\ [][NextDot]_vars

StartConv == InitConv /\ IdleTensor /\ IdleCache /\ IdlePad /\ IdlePool /\ IdleReshape /\ IdleDot

SpecConv == StartConv /\ [][NextConv]_vars

=============================================================================
